---- MODULE Spec2Model ----
(***************************************************************************)
(* SecretChecker (src/src/main.ts): parseInputs -> parseSecrets ->         *)
(* handleCheckerOutput -> core.setOutput("success", ...).                  *)
(*                                                                         *)
(* Text is a sequence of pieces.  A piece is one character, except the     *)
(* piece "toString", which stands for that unbroken word of letters.       *)
(***************************************************************************)
EXTENDS Integers, Sequences, FiniteSets, TLC

VARIABLES pc, raw, inputs, outputs, calls, log, error, returned, success

vars == <<pc, raw, inputs, outputs, calls, log, error, returned, success>>

(***************************************************************************)
(* Bounds                                                                  *)
(***************************************************************************)
MaxCheckLen == 3
MaxCheck == 3
MaxValueLen == 1
MaxCalls == 2

(***************************************************************************)
(* Text helpers                                                            *)
(***************************************************************************)
Range(s) == {s[i] : i \in 1..Len(s)}

SeqsUpTo(S, n) == UNION {[1..k -> S] : k \in 0..n}

NL == "\n"
SP == " "

\* String.prototype.toLowerCase on the letters the model uses
ToLowerChar(c) ==
  CASE c = "T" -> "t" [] c = "R" -> "r" [] c = "U" -> "u" [] c = "E" -> "e"
    [] c = "F" -> "f" [] c = "A" -> "a" [] c = "L" -> "l" [] c = "S" -> "s"
    [] OTHER -> c

ToLowerCase(s) == [i \in 1..Len(s) |-> ToLowerChar(s[i])]

\* String.prototype.split("\n")
RECURSIVE Split(_)
Split(s) ==
  IF \E i \in 1..Len(s) : s[i] = NL
  THEN LET i == CHOOSE j \in 1..Len(s) :
                  s[j] = NL /\ \A k \in 1..(j - 1) : s[k] # NL
       IN <<SubSeq(s, 1, i - 1)>> \o Split(SubSeq(s, i + 1, Len(s)))
  ELSE <<s>>

\* String.prototype.trim
RECURSIVE Trim(_)
Trim(s) ==
  IF s = <<>> THEN s
  ELSE IF Head(s) \in {SP, NL} THEN Trim(Tail(s))
  ELSE IF s[Len(s)] \in {SP, NL} THEN Trim(SubSeq(s, 1, Len(s) - 1))
  ELSE s

RECURSIVE Join(_, _)
Join(ss, sep) ==
  IF ss = <<>> THEN <<>>
  ELSE IF Len(ss) = 1 THEN ss[1]
  ELSE ss[1] \o sep \o Join(Tail(ss), sep)

(***************************************************************************)
(* Errors                                                                  *)
(***************************************************************************)
Err(msg) == [msg |-> msg, value |-> <<>>, key |-> ""]
NoError == Err("")

InvalidJson == Err("Invalid JSON for input 'secrets'.")
InvalidSchema == Err("Input 'secrets' does not fit schema: string -> string.")
InvalidRegex == Err("Invalid regex for input 'pattern'.")
CheckEmpty == Err("Input 'check' should not be empty, or contain empty lines.")
CheckSpaces ==
  Err("Input 'check' should not contain spaces in lines. Secret keys do not contain spaces.")
InvalidBoolean(input, key) ==
  [msg |-> "Invalid input boolean value '<value>' for input key '<key>'. Excepted: 'true' or 'false' (case insensitive).",
   value |-> input, key |-> key]
SuccessMsg == "All secrets are set and have valid values."
FailMsg == "Necessary secrets not set or do not have valid values. See above."

(***************************************************************************)
(* getInputBoolean                                                         *)
(***************************************************************************)
TrueText == <<"t", "r", "u", "e">>
FalseText == <<"f", "a", "l", "s", "e">>

getInputBooleanNoLower(getInput, key, defaultValue) ==
  LET input == getInput[key]
  IN IF input = <<>> THEN [error |-> NoError, value |-> defaultValue]
     ELSE IF input = TrueText THEN [error |-> NoError, value |-> TRUE]
     ELSE IF input = FalseText THEN [error |-> NoError, value |-> FALSE]
     ELSE [error |-> InvalidBoolean(input, key), value |-> defaultValue]

getInputBoolean(getInput, key, defaultValue) ==
  LET input == getInput[key]
      lower == ToLowerCase(input)
  IN IF lower = <<>> THEN [error |-> NoError, value |-> defaultValue]
     ELSE IF lower = TrueText THEN [error |-> NoError, value |-> TRUE]
     ELSE IF lower = FalseText THEN [error |-> NoError, value |-> FALSE]
     ELSE [error |-> InvalidBoolean(input, key), value |-> defaultValue]

(***************************************************************************)
(* parseSecretsInput: JSON.parse, then the zod schema string -> string     *)
(* A raw secrets text is represented by whether it is well-formed JSON and *)
(* the JSON value it denotes.                                              *)
(***************************************************************************)
JString(s) == [t |-> "string", v |-> s]
JNumber == [t |-> "number", v |-> <<"5">>]
JObject(m) == [t |-> "object", v |-> m]
JsonText(value) == [wellFormed |-> TRUE, value |-> value]
NotJsonText == [wellFormed |-> FALSE, value |-> JNumber]

JsonParse(text) ==
  IF text.wellFormed THEN [error |-> NoError, value |-> text.value]
  ELSE [error |-> InvalidJson, value |-> JNumber]

secretsSchema(json) ==
  IF json.t = "object" /\ \A k \in DOMAIN json.v : json.v[k].t = "string"
  THEN [error |-> NoError, value |-> [k \in DOMAIN json.v |-> json.v[k].v]]
  ELSE [error |-> InvalidSchema, value |-> <<>>]

parseSecretsInput(getInput) ==
  LET parsed == JsonParse(getInput["secrets"])
  IN IF parsed.error # NoError THEN [error |-> InvalidJson, value |-> <<>>]
     ELSE secretsSchema(parsed.value)

(***************************************************************************)
(* regexParse (regex-parser): "/body/flags"; unsupported flag letters are  *)
(* dropped; a malformed body does not compile.                             *)
(***************************************************************************)
SupportedFlags == {"g", "i", "m", "s", "u", "y"}

NoPattern == [present |-> FALSE, body |-> <<>>, flags |-> {}, lastIndex |-> 0]

LastSlash(s) == CHOOSE i \in 1..Len(s) : s[i] = "/" /\ \A j \in (i + 1)..Len(s) : s[j] # "/"

regexParse(patternStr) ==
  LET delimited == Len(patternStr) >= 3 /\ Head(patternStr) = "/"
                   /\ LastSlash(patternStr) > 2
      body == IF delimited THEN SubSeq(patternStr, 2, LastSlash(patternStr) - 1)
              ELSE patternStr
      flags == IF delimited
               THEN Range(SubSeq(patternStr, LastSlash(patternStr) + 1, Len(patternStr)))
               ELSE {}
  IN IF "(" \in Range(body)
     THEN [error |-> InvalidRegex, value |-> NoPattern]
     ELSE [error |-> NoError,
           value |-> [present |-> TRUE, body |-> body,
                      flags |-> flags \cap SupportedFlags, lastIndex |-> 0]]

parsePattern(getInput) ==
  LET patternStr == getInput["pattern"]
  IN IF patternStr # <<>> THEN regexParse(patternStr)
     ELSE [error |-> NoError, value |-> NoPattern]

(***************************************************************************)
(* parseInputs                                                             *)
(***************************************************************************)
ReadCheck(getInput) ==
  LET lines == Split(getInput["check"])
  IN [i \in 1..Len(lines) |-> Trim(lines[i])]

CheckEmptyErrorNever(check) == NoError

CheckEmptyError(check) ==
  IF \E i \in 1..Len(check) : check[i] = <<>> THEN CheckEmpty ELSE NoError

CheckSpacesError(check) ==
  IF \E i \in 1..Len(check) : SP \in Range(check[i]) THEN CheckSpaces ELSE NoError

NoInputs ==
  [secrets |-> <<>>, check |-> <<>>, allowEmpty |-> FALSE, pattern |-> NoPattern,
   throwIfFail |-> FALSE, throwIfSuccess |-> FALSE]

Throw(err) == [error |-> err, value |-> NoInputs]

parseInputsCheckFirst(getInput) ==
  LET secrets == parseSecretsInput(getInput)
      check == ReadCheck(getInput)
      allowEmpty == getInputBoolean(getInput, "allowEmpty", FALSE)
      pattern == parsePattern(getInput)
      throwIfFail == getInputBoolean(getInput, "throwIfFail", FALSE)
      throwIfSuccess == getInputBoolean(getInput, "throwIfSuccess", FALSE)
  IN IF secrets.error # NoError THEN Throw(secrets.error)
     ELSE IF CheckEmptyError(check) # NoError THEN Throw(CheckEmptyError(check))
     ELSE IF CheckSpacesError(check) # NoError THEN Throw(CheckSpacesError(check))
     ELSE IF allowEmpty.error # NoError THEN Throw(allowEmpty.error)
     ELSE IF pattern.error # NoError THEN Throw(pattern.error)
     ELSE IF throwIfFail.error # NoError THEN Throw(throwIfFail.error)
     ELSE IF throwIfSuccess.error # NoError THEN Throw(throwIfSuccess.error)
     ELSE [error |-> NoError,
           value |-> [secrets |-> secrets.value, check |-> check,
                      allowEmpty |-> allowEmpty.value, pattern |-> pattern.value,
                      throwIfFail |-> throwIfFail.value,
                      throwIfSuccess |-> throwIfSuccess.value]]

parseInputs(getInput) ==
  LET secrets == parseSecretsInput(getInput)
      check == ReadCheck(getInput)
      allowEmpty == getInputBoolean(getInput, "allowEmpty", FALSE)
      pattern == parsePattern(getInput)
      throwIfFail == getInputBoolean(getInput, "throwIfFail", FALSE)
      throwIfSuccess == getInputBoolean(getInput, "throwIfSuccess", FALSE)
  IN IF secrets.error # NoError THEN Throw(secrets.error)
     ELSE IF allowEmpty.error # NoError THEN Throw(allowEmpty.error)
     ELSE IF pattern.error # NoError THEN Throw(pattern.error)
     ELSE IF throwIfFail.error # NoError THEN Throw(throwIfFail.error)
     ELSE IF throwIfSuccess.error # NoError THEN Throw(throwIfSuccess.error)
     ELSE IF CheckEmptyError(check) # NoError THEN Throw(CheckEmptyError(check))
     ELSE IF CheckSpacesError(check) # NoError THEN Throw(CheckSpacesError(check))
     ELSE [error |-> NoError,
           value |-> [secrets |-> secrets.value, check |-> check,
                      allowEmpty |-> allowEmpty.value, pattern |-> pattern.value,
                      throwIfFail |-> throwIfFail.value,
                      throwIfSuccess |-> throwIfSuccess.value]]

(***************************************************************************)
(* Property lookup on the secrets object: `key in secrets` and             *)
(* `secrets[key]` also find the properties inherited from Object.prototype *)
(***************************************************************************)
InheritedNames == {<<"toString">>}

\* String(Object.prototype.toString), abridged; it has no piece of a secret value
FunctionText == <<"f", "n">>

JsString(s) == [t |-> "string", v |-> s]
JsFunction == [t |-> "function", v |-> FunctionText]
JsUndefined == [t |-> "undefined", v |-> <<"u", "n", "d">>]

HasProperty(secrets, key) == key \in DOMAIN secrets \/ key \in InheritedNames

GetProperty(secrets, key) ==
  IF key \in DOMAIN secrets THEN JsString(secrets[key])
  ELSE IF key \in InheritedNames THEN JsFunction
  ELSE JsUndefined

(***************************************************************************)
(* RegExp.prototype.test for a literal body: RegExpBuiltinExec with the    *)
(* global and sticky flags reading and writing lastIndex                   *)
(***************************************************************************)
MatchesAt(body, text, i) ==
  i + Len(body) <= Len(text) /\ SubSeq(text, i + 1, i + Len(body)) = body

RegExpTest(pattern, value) ==
  LET text == value.v
      stateful == pattern.flags \cap {"g", "y"} # {}
      start == IF stateful THEN pattern.lastIndex ELSE 0
      candidates == IF "y" \in pattern.flags THEN {start} ELSE start..Len(text)
      found == {i \in candidates : i <= Len(text) /\ MatchesAt(pattern.body, text, i)}
      first == CHOOSE i \in found : \A j \in found : i <= j
  IN IF found = {}
     THEN [result |-> FALSE,
           pattern |-> IF stateful THEN [pattern EXCEPT !.lastIndex = 0] ELSE pattern]
     ELSE [result |-> TRUE,
           pattern |-> IF stateful
                       THEN [pattern EXCEPT !.lastIndex = first + Len(pattern.body)]
                       ELSE pattern]

(***************************************************************************)
(* parseSecrets                                                            *)
(***************************************************************************)
RECURSIVE SelectSeqBy(_, _)
SelectSeqBy(s, flag) ==
  IF s = <<>> THEN <<>>
  ELSE IF Head(s)[flag] THEN <<Head(s)>> \o SelectSeqBy(Tail(s), flag)
  ELSE SelectSeqBy(Tail(s), flag)

RECURSIVE RejectSeqBy(_, _)
RejectSeqBy(s, flag) ==
  IF s = <<>> THEN <<>>
  ELSE IF ~Head(s)[flag] THEN <<Head(s)>> \o RejectSeqBy(Tail(s), flag)
  ELSE RejectSeqBy(Tail(s), flag)

Keys(s) == [i \in 1..Len(s) |-> s[i].key]

KeyExistsStage(inp) ==
  [i \in 1..Len(inp.check) |->
     [key |-> inp.check[i], exists |-> HasProperty(inp.secrets, inp.check[i])]]

NotEmptyStageUnfiltered(inp, keyExists) ==
  [i \in 1..Len(keyExists) |->
     [key |-> keyExists[i].key,
      notEmpty |-> inp.allowEmpty
                   \/ GetProperty(inp.secrets, keyExists[i].key) # JsString(<<>>)]]

NotEmptyStage(inp, keyExists) ==
  LET kept == SelectSeqBy(keyExists, "exists")
  IN [i \in 1..Len(kept) |->
        [key |-> kept[i].key,
         notEmpty |-> inp.allowEmpty
                      \/ GetProperty(inp.secrets, kept[i].key) # JsString(<<>>)]]

\* the map over the kept keys, in order; each test may move pattern.lastIndex
RECURSIVE MatchEach(_, _, _)
MatchEach(kept, secrets, pattern) ==
  IF kept = <<>> THEN [list |-> <<>>, pattern |-> pattern]
  ELSE IF ~pattern.present
       THEN LET rest == MatchEach(Tail(kept), secrets, pattern)
            IN [list |-> <<[key |-> Head(kept).key, matchesPattern |-> TRUE]>> \o rest.list,
                pattern |-> rest.pattern]
       ELSE LET t == RegExpTest(pattern, GetProperty(secrets, Head(kept).key))
                rest == MatchEach(Tail(kept), secrets, t.pattern)
            IN [list |-> <<[key |-> Head(kept).key, matchesPattern |-> t.result]>>
                         \o rest.list,
                pattern |-> rest.pattern]

MatchesPatternStage(inp, notEmpty) ==
  MatchEach(SelectSeqBy(notEmpty, "notEmpty"), inp.secrets, inp.pattern)

NoOutputs == [result |-> FALSE, keyExists |-> <<>>, notEmpty |-> <<>>, matchesPattern |-> <<>>]

\* the returned SecretCheckerOutput, and the inputs object as the call leaves it
parseSecrets(inp) ==
  LET keyExists == KeyExistsStage(inp)
      notEmpty == NotEmptyStage(inp, keyExists)
      matched == MatchesPatternStage(inp, notEmpty)
      result == Len(SelectSeqBy(matched.list, "matchesPattern")) = Len(inp.check)
  IN [outputs |-> [result |-> result, keyExists |-> keyExists,
                   notEmpty |-> notEmpty, matchesPattern |-> matched.list],
      inputs |-> [inp EXCEPT !.pattern = matched.pattern]]

(***************************************************************************)
(* handleCheckerOutput                                                     *)
(***************************************************************************)
Line(level, text, pattern, keys) ==
  [level |-> level, text |-> text,
   pattern |-> [body |-> pattern.body, flags |-> pattern.flags], keys |-> keys]

FailureLinesNoEmpty(inp, out) ==
  LET notSet == RejectSeqBy(out.keyExists, "exists")
      failedPattern == RejectSeqBy(out.matchesPattern, "matchesPattern")
  IN (IF Len(notSet) # 0
      THEN <<Line("warn", "Secrets not set:", NoPattern, Keys(notSet))>> ELSE <<>>)
     \o (IF inp.pattern.present /\ Len(failedPattern) # 0
         THEN <<Line("warn", "Secrets that failed to match pattern", inp.pattern,
                     Keys(failedPattern))>>
         ELSE <<>>)

FailureLinesEmptyFirst(inp, out) ==
  LET notSet == RejectSeqBy(out.keyExists, "exists")
      empty == RejectSeqBy(out.notEmpty, "notEmpty")
      failedPattern == RejectSeqBy(out.matchesPattern, "matchesPattern")
  IN (IF ~inp.allowEmpty /\ Len(empty) # 0
      THEN <<Line("warn", "Secrets with empty values:", NoPattern, Keys(empty))>>
      ELSE <<>>)
     \o (IF Len(notSet) # 0
         THEN <<Line("warn", "Secrets not set:", NoPattern, Keys(notSet))>> ELSE <<>>)
     \o (IF inp.pattern.present /\ Len(failedPattern) # 0
         THEN <<Line("warn", "Secrets that failed to match pattern", inp.pattern,
                     Keys(failedPattern))>>
         ELSE <<>>)

FailureLines(inp, out) ==
  LET notSet == RejectSeqBy(out.keyExists, "exists")
      empty == RejectSeqBy(out.notEmpty, "notEmpty")
      failedPattern == RejectSeqBy(out.matchesPattern, "matchesPattern")
  IN (IF Len(notSet) # 0
      THEN <<Line("warn", "Secrets not set:", NoPattern, Keys(notSet))>> ELSE <<>>)
     \o (IF ~inp.allowEmpty /\ Len(empty) # 0
         THEN <<Line("warn", "Secrets with empty values:", NoPattern, Keys(empty))>>
         ELSE <<>>)
     \o (IF inp.pattern.present /\ Len(failedPattern) # 0
         THEN <<Line("warn", "Secrets that failed to match pattern", inp.pattern,
                     Keys(failedPattern))>>
         ELSE <<>>)

handleCheckerOutputThrowFirst(inp, out) ==
  IF out.result
  THEN IF inp.throwIfSuccess
       THEN [threw |-> TRUE, error |-> Err(SuccessMsg), log |-> <<>>, value |-> FALSE]
       ELSE [threw |-> FALSE, error |-> NoError,
             log |-> <<Line("info", SuccessMsg, NoPattern, <<>>)>>, value |-> out.result]
  ELSE IF inp.throwIfFail
       THEN [threw |-> TRUE, error |-> Err(FailMsg), log |-> <<>>, value |-> FALSE]
       ELSE [threw |-> FALSE, error |-> NoError, log |-> FailureLines(inp, out),
             value |-> out.result]

handleCheckerOutputSwapped(inp, out) ==
  IF out.result
  THEN IF inp.throwIfFail
       THEN [threw |-> TRUE, error |-> Err(SuccessMsg), log |-> <<>>, value |-> FALSE]
       ELSE [threw |-> FALSE, error |-> NoError,
             log |-> <<Line("info", SuccessMsg, NoPattern, <<>>)>>, value |-> out.result]
  ELSE IF inp.throwIfSuccess
       THEN [threw |-> TRUE, error |-> Err(FailMsg), log |-> FailureLines(inp, out),
             value |-> FALSE]
       ELSE [threw |-> FALSE, error |-> NoError, log |-> FailureLines(inp, out),
             value |-> out.result]

handleCheckerOutput(inp, out) ==
  IF out.result
  THEN IF inp.throwIfSuccess
       THEN [threw |-> TRUE, error |-> Err(SuccessMsg), log |-> <<>>, value |-> FALSE]
       ELSE [threw |-> FALSE, error |-> NoError,
             log |-> <<Line("info", SuccessMsg, NoPattern, <<>>)>>, value |-> out.result]
  ELSE IF inp.throwIfFail
       THEN [threw |-> TRUE, error |-> Err(FailMsg), log |-> FailureLines(inp, out),
             value |-> FALSE]
       ELSE [threw |-> FALSE, error |-> NoError, log |-> FailureLines(inp, out),
             value |-> out.result]

\* core.setOutput serialises the boolean it is given
toCommandValueConstant(value) == "true"

toCommandValue(value) == IF value THEN "true" ELSE "false"

(***************************************************************************)
(* Raw inputs handed to the action by core.getInput                        *)
(***************************************************************************)
RawBooleans ==
  {<<>>, <<"t", "R", "u", "E">>, <<"F", "a", "l", "s", "e">>, <<"5">>}

SecretNames == {<<"a">>, <<"b">>}
CheckNames == SecretNames \cup InheritedNames
\* secret values: runs of "x" up to MaxValueLen, and one value without an "x"
SecretValues == SeqsUpTo({"x"}, MaxValueLen) \cup {<<"y">>}

RawInput(secrets, check, allowEmpty, pattern, throwIfFail, throwIfSuccess) ==
  [secrets |-> secrets, check |-> check, allowEmpty |-> allowEmpty, pattern |-> pattern,
   throwIfFail |-> throwIfFail, throwIfSuccess |-> throwIfSuccess]

\* every check text up to MaxCheckLen pieces, against every boolean literal,
\* with well-formed and malformed secrets and patterns
ValidationInputs ==
  {RawInput(s, c, ae, p, tf, ts) :
     s \in {NotJsonText,
            JsonText(JObject([k \in {<<"a">>} |-> JNumber])),
            JsonText(JObject([k \in {<<"a">>} |-> JString(<<"x">>)]))},
     c \in SeqsUpTo({"a", SP, NL}, MaxCheckLen),
     ae \in RawBooleans,
     p \in {<<>>, <<"/", "x", "/", "i", "z">>, <<"/", "(", "/", "g">>},
     tf \in RawBooleans,
     ts \in RawBooleans}

SecretObjects ==
  UNION {[names -> SecretValues] : names \in SUBSET SecretNames}

\* well-formed runs: every secrets object, every list of up to MaxCheck names
EvaluationInputs ==
  {RawInput(JsonText(JObject([k \in DOMAIN o |-> JString(o[k])])), Join(names, <<NL>>),
            ae, p, tf, ts) :
     o \in SecretObjects,
     names \in SeqsUpTo(CheckNames, MaxCheck) \ {<<>>},
     ae \in {<<>>, TrueText},
     p \in {<<>>, <<"/", "x", "/">>, <<"/", "x", "/", "g">>, <<"/", "x", "/", "y">>},
     tf \in {<<>>, TrueText},
     ts \in {<<>>, TrueText}}

RawInputs == ValidationInputs \cup EvaluationInputs

NoRaw == RawInput(NotJsonText, <<>>, <<>>, <<>>, <<>>, <<>>)

(***************************************************************************)
(* The run of the action (main)                                            *)
(***************************************************************************)
Init ==
  /\ pc = "start"
  /\ raw = NoRaw
  /\ inputs = NoInputs
  /\ outputs = NoOutputs
  /\ calls = <<>>
  /\ log = <<>>
  /\ error = NoError
  /\ returned = FALSE
  /\ success = <<>>

ParseInputs ==
  /\ pc = "start"
  /\ \E r \in RawInputs :
       LET p == parseInputs(r)
       IN /\ raw' = r
          /\ inputs' = p.value
          /\ error' = p.error
          /\ pc' = IF p.error # NoError THEN "failed" ELSE "parsed"
  /\ UNCHANGED <<outputs, calls, log, returned, success>>

Evaluate ==
  LET r == parseSecrets(inputs)
  IN /\ outputs' = r.outputs
     /\ inputs' = r.inputs
     /\ calls' = Append(calls, r.outputs)
     /\ pc' = "evaluated"
     /\ UNCHANGED <<raw, log, error, returned, success>>

ParseSecrets ==
  /\ pc = "parsed"
  /\ Evaluate

HandleCheckerOutput ==
  /\ pc = "evaluated"
  /\ LET h == handleCheckerOutput(inputs, outputs)
     IN /\ log' = log \o h.log
        /\ error' = h.error
        /\ returned' = h.value
        /\ pc' = IF h.threw THEN "failed" ELSE "handled"
  /\ UNCHANGED <<raw, inputs, outputs, calls, success>>

SetOutput ==
  /\ pc = "handled"
  /\ success' = Append(success, toCommandValue(returned))
  /\ pc' = "done"
  /\ UNCHANGED <<raw, inputs, outputs, calls, log, error, returned>>

Next == ParseInputs \/ ParseSecrets \/ HandleCheckerOutput \/ SetOutput

Spec == Init /\ [][Next]_vars

(***************************************************************************)
(* The exported functions called directly, as the test suite does:         *)
(* parseSecrets up to MaxCalls times on one ParsedInputs                   *)
(***************************************************************************)
InitEval ==
  /\ raw \in {r \in EvaluationInputs : parseInputs(r).error = NoError}
  /\ pc = "parsed"
  /\ inputs = parseInputs(raw).value
  /\ outputs = NoOutputs
  /\ calls = <<>>
  /\ log = <<>>
  /\ error = NoError
  /\ returned = FALSE
  /\ success = <<>>

ParseSecretsAgain ==
  /\ pc = "evaluated"
  /\ Len(calls) < MaxCalls
  /\ Evaluate

NextEval == ParseSecrets \/ ParseSecretsAgain \/ HandleCheckerOutput

SpecEval == InitEval /\ [][NextEval]_vars

(***************************************************************************)
(* Properties                                                              *)
(***************************************************************************)
\* parseInputs has returned a ParsedInputs
Parsed == pc = "parsed" \/ calls # <<>>
\* parseInputs has thrown
ParseFailed == pc = "failed" /\ calls = <<>>
\* parseSecrets has returned
Evaluated == calls # <<>>
\* handleCheckerOutput has returned or thrown
Handled == calls # <<>> /\ pc \in {"handled", "done", "failed"}

\* the ParsedInputs as parseInputs returned it
Returned == parseInputs(raw).value

\* the keys of the mapping written in the `secrets` input
SuppliedKeys == DOMAIN raw.secrets.value.v

\* a freshly compiled pattern tests positive against a text
TestsPositive(pattern, text) ==
  \E i \in 0..Len(text) :
    /\ MatchesAt(pattern.body, text, i)
    /\ "y" \in pattern.flags => i = 0

ExistsTrue(e) == e.exists
NotEmptyTrue(e) == e.notEmpty
MatchesTrue(e) == e.matchesPattern

\* C1: result is true iff every entry of check is a key of secrets, has a
\* non-empty value (or allowEmpty is set) and a value the pattern tests
\* positive against (or no pattern is configured).
C1_ResultIff ==
  Evaluated =>
    (outputs.result <=>
       \A i \in 1..Len(inputs.check) :
          LET key == inputs.check[i]
          IN /\ key \in DOMAIN inputs.secrets
             /\ inputs.secrets[key] # <<>> \/ inputs.allowEmpty
             /\ ~inputs.pattern.present
                \/ TestsPositive(inputs.pattern, inputs.secrets[key]))

\* C2: handleCheckerOutput fails exactly when (result and throwIfSuccess) or
\* (not result and throwIfFail), with the matching message; otherwise it
\* returns outputs.result.  The other flag never causes a failure.
C2_ThrowPolicy ==
  Handled =>
    LET onSuccess == outputs.result /\ inputs.throwIfSuccess
        onFail == ~outputs.result /\ inputs.throwIfFail
    IN /\ pc = "failed" <=> (onSuccess \/ onFail)
       /\ onSuccess => error = Err(SuccessMsg)
       /\ onFail => error = Err(FailMsg)
       /\ pc # "failed" => returned = outputs.result /\ error = NoError

\* C2 witness: a failed result escalated by throwIfFail while throwIfSuccess is set too
C2_Witness ==
  /\ Handled /\ pc = "failed" /\ ~outputs.result
  /\ inputs.throwIfFail /\ inputs.throwIfSuccess
  /\ error = Err(FailMsg)

(***************************************************************************)
(* The validation rules of parseInputs, read off the raw inputs            *)
(***************************************************************************)
CasePairs ==
  {<<"T", "t">>, <<"R", "r">>, <<"U", "u">>, <<"E", "e">>, <<"F", "f">>,
   <<"A", "a">>, <<"L", "l">>, <<"S", "s">>}

EqualsIgnoringCase(s, t) ==
  /\ Len(s) = Len(t)
  /\ \A i \in 1..Len(s) :
       s[i] = t[i] \/ <<s[i], t[i]>> \in CasePairs \/ <<t[i], s[i]>> \in CasePairs

BooleanKeys == {"allowEmpty", "throwIfFail", "throwIfSuccess"}

BadJson(r) == ~r.secrets.wellFormed
BadSchema(r) ==
  /\ r.secrets.wellFormed
  /\ \/ r.secrets.value.t # "object"
     \/ \E k \in DOMAIN r.secrets.value.v : r.secrets.value.v[k].t # "string"
BadBoolean(r, k) ==
  /\ r[k] # <<>>
  /\ ~EqualsIgnoringCase(r[k], TrueText)
  /\ ~EqualsIgnoringCase(r[k], FalseText)
BadPattern(r) == r.pattern # <<>> /\ regexParse(r.pattern).error # NoError
Entries(r) == ReadCheck(r)
HasEmptyEntry(r) == \E i \in 1..Len(Entries(r)) : Entries(r)[i] = <<>>
HasSpaceEntry(r) == \E i \in 1..Len(Entries(r)) : SP \in Range(Entries(r)[i])

Rule(r, name) ==
  CASE name = "json" -> [violated |-> BadJson(r), error |-> InvalidJson]
    [] name = "schema" -> [violated |-> BadSchema(r), error |-> InvalidSchema]
    [] name = "checkEmpty" -> [violated |-> HasEmptyEntry(r), error |-> CheckEmpty]
    [] name = "checkSpaces" -> [violated |-> HasSpaceEntry(r), error |-> CheckSpaces]
    [] name = "pattern" -> [violated |-> BadPattern(r), error |-> InvalidRegex]
    [] OTHER -> [violated |-> BadBoolean(r, name), error |-> InvalidBoolean(r[name], name)]

SpecOrder ==
  <<"json", "schema", "checkEmpty", "checkSpaces", "allowEmpty", "pattern",
    "throwIfFail", "throwIfSuccess">>

CodeOrder ==
  <<"json", "schema", "allowEmpty", "pattern", "throwIfFail", "throwIfSuccess",
    "checkEmpty", "checkSpaces">>

\* the error of the earliest violated rule of an order, NoError when none is violated
EarliestViolation(r, order) ==
  LET bad == {i \in 1..Len(order) : Rule(r, order[i]).violated}
  IN IF bad = {} THEN NoError
     ELSE Rule(r, order[CHOOSE i \in bad : \A j \in bad : i <= j]).error

\* C3 (as stated): the error raised is the one of the earliest violated rule in
\* the order JSON, schema, check empty, check spaces, allowEmpty, pattern,
\* throwIfFail, throwIfSuccess.
C3_SpecOrder ==
  (pc # "start" /\ calls = <<>>) => error = EarliestViolation(raw, SpecOrder)

\* C3 (amended): the error raised is the one of the earliest violated rule in
\* the order JSON, schema, allowEmpty, pattern, throwIfFail, throwIfSuccess,
\* check empty, check spaces.
C3_CodeOrder ==
  (pc # "start" /\ calls = <<>>) => error = EarliestViolation(raw, CodeOrder)

\* C3 witness: an empty check entry together with an invalid allowEmpty literal
\* raises the boolean error
C3_Witness ==
  /\ ParseFailed
  /\ HasEmptyEntry(raw) /\ BadBoolean(raw, "allowEmpty")
  /\ error = InvalidBoolean(raw.allowEmpty, "allowEmpty")

\* C4: parseSecrets called repeatedly on one ParsedInputs returns equal outputs
\* every time and leaves the ParsedInputs, compiled pattern included, unchanged.
C4_Pure ==
  Evaluated =>
    /\ \A i \in 1..Len(calls) : calls[i] = calls[1]
    /\ inputs = Returned

\* C5: `success` is set at most once, only after handleCheckerOutput returned,
\* to "true" iff parseSecrets' result is true; never when parseInputs or
\* handleCheckerOutput threw.
C5_SuccessOutput ==
  /\ Len(success) <= 1
  /\ success # <<>> =>
       /\ pc = "done" /\ Handled /\ error = NoError
       /\ success[1] \in {"true", "false"}
       /\ success[1] = "true" <=> outputs.result
  /\ pc = "failed" => success = <<>>
  /\ pc = "done" => Len(success) = 1

\* C5 witness: a run that ended with success set to "false"
C5_Witness == pc = "done" /\ success = <<"false">> /\ ~outputs.result

SecretsValid(r) == ~BadJson(r) /\ ~BadSchema(r)

\* every input read before the check validation runs is valid
ReadBeforeCheckValid(r) ==
  /\ SecretsValid(r)
  /\ \A k \in BooleanKeys : ~BadBoolean(r, k)
  /\ ~BadPattern(r)

\* every returned check is non-empty, with no empty entry and no entry with a space
CheckWellFormed ==
  Parsed =>
    /\ inputs.check # <<>>
    /\ \A i \in 1..Len(inputs.check) :
         inputs.check[i] # <<>> /\ SP \notin Range(inputs.check[i])

\* C6 (as stated): a returned check is well formed; with valid secrets, an
\* empty entry makes parseInputs fail with the empty-check error, and
\* otherwise an entry with a space makes it fail with the spaces error.
C6_CheckErrors ==
  /\ CheckWellFormed
  /\ (pc # "start" /\ SecretsValid(raw) /\ HasEmptyEntry(raw))
       => ParseFailed /\ error = CheckEmpty
  /\ (pc # "start" /\ SecretsValid(raw) /\ ~HasEmptyEntry(raw) /\ HasSpaceEntry(raw))
       => ParseFailed /\ error = CheckSpaces

\* C6 (amended): a returned check is well formed; when secrets, the three
\* booleans and the pattern are valid, an empty entry makes parseInputs fail
\* with the empty-check error, and otherwise an entry with a space makes it
\* fail with the spaces error; an invalid check never yields a ParsedInputs.
C6_CheckErrorsLast ==
  /\ CheckWellFormed
  /\ (pc # "start" /\ (HasEmptyEntry(raw) \/ HasSpaceEntry(raw))) => ParseFailed
  /\ (pc # "start" /\ ReadBeforeCheckValid(raw) /\ HasEmptyEntry(raw))
       => error = CheckEmpty
  /\ (pc # "start" /\ ReadBeforeCheckValid(raw) /\ ~HasEmptyEntry(raw)
        /\ HasSpaceEntry(raw))
       => error = CheckSpaces

\* C6 witness: a whitespace-only check input is rejected with the empty-check error
C6_Witness ==
  /\ ParseFailed /\ raw.check = <<SP>> /\ ReadBeforeCheckValid(raw)
  /\ error = CheckEmpty

\* the inputs parseInputs reads before it reads boolean k are valid
ReadBeforeValid(r, k) ==
  /\ SecretsValid(r)
  /\ k \in {"throwIfFail", "throwIfSuccess"}
       => ~BadBoolean(r, "allowEmpty") /\ ~BadPattern(r)
  /\ k = "throwIfSuccess" => ~BadBoolean(r, "throwIfFail")

\* C7: for each boolean input, "" yields false, "true" ignoring case yields
\* true, "false" ignoring case yields false; any other text yields no
\* ParsedInputs and (when reached) the invalid-boolean error naming the raw
\* value and the key.
C7_BooleanParsing ==
  pc # "start" =>
    \A k \in BooleanKeys :
      /\ Parsed =>
           /\ raw[k] = <<>> => inputs[k] = FALSE
           /\ EqualsIgnoringCase(raw[k], TrueText) => inputs[k] = TRUE
           /\ EqualsIgnoringCase(raw[k], FalseText) => inputs[k] = FALSE
      /\ BadBoolean(raw, k) => ParseFailed
      /\ ~BadBoolean(raw, k) => error # InvalidBoolean(raw[k], k)
      /\ (BadBoolean(raw, k) /\ ReadBeforeValid(raw, k))
           => error = InvalidBoolean(raw[k], k)

\* C7 witness: mixed-case literals were accepted
C7_Witness ==
  /\ pc = "parsed"
  /\ raw.allowEmpty = <<"t", "R", "u", "E">> /\ inputs.allowEmpty
  /\ raw.throwIfSuccess = <<"F", "a", "l", "s", "e">> /\ ~inputs.throwIfSuccess
  /\ raw.throwIfFail = <<>> /\ ~inputs.throwIfFail

\* C8: keyExists has one (key, exists) pair per check entry, in order, and
\* exists is true iff the entry is a key of the supplied secrets mapping; a
\* name not supplied is excluded from notEmpty and matchesPattern.
C8_KeyExists ==
  Evaluated =>
    /\ Keys(outputs.keyExists) = inputs.check
    /\ \A i \in 1..Len(outputs.keyExists) :
         outputs.keyExists[i].exists <=> outputs.keyExists[i].key \in SuppliedKeys
    /\ \A k \in Range(inputs.check) \ SuppliedKeys :
         k \notin Range(Keys(outputs.notEmpty))
         /\ k \notin Range(Keys(outputs.matchesPattern))

\* C9: notEmpty is the subsequence of keyExists with exists true, and
\* matchesPattern the subsequence of notEmpty with notEmpty true, in order;
\* the lengths narrow; a key flagged missing is in neither later list; an
\* empty value with allowEmpty false never reaches the pattern stage.
C9_Narrowing ==
  Evaluated =>
    /\ Keys(outputs.keyExists) = inputs.check
    /\ Keys(outputs.notEmpty) = Keys(SelectSeq(outputs.keyExists, ExistsTrue))
    /\ Keys(outputs.matchesPattern) = Keys(SelectSeq(outputs.notEmpty, NotEmptyTrue))
    /\ Len(outputs.matchesPattern) <= Len(outputs.notEmpty)
    /\ Len(outputs.notEmpty) <= Len(outputs.keyExists)
    /\ \A i \in 1..Len(outputs.keyExists) :
         ~outputs.keyExists[i].exists =>
           /\ outputs.keyExists[i].key \notin Range(Keys(outputs.notEmpty))
           /\ outputs.keyExists[i].key \notin Range(Keys(outputs.matchesPattern))
    /\ \A i \in 1..Len(outputs.matchesPattern) :
         LET key == outputs.matchesPattern[i].key
         IN (~inputs.allowEmpty /\ key \in DOMAIN inputs.secrets)
              => inputs.secrets[key] # <<>>

\* C9 witness: each stage dropped an entry
C9_Witness ==
  /\ Evaluated
  /\ Len(outputs.matchesPattern) < Len(outputs.notEmpty)
  /\ Len(outputs.notEmpty) < Len(outputs.keyExists)

\* the output for a check holding the single entry key
Alone(key) == parseSecrets([Returned EXCEPT !.check = <<key>>]).outputs

RECURSIVE EachAlone(_, _)
EachAlone(check, list) ==
  IF check = <<>> THEN <<>>
  ELSE Alone(Head(check))[list] \o EachAlone(Tail(check), list)

\* C10: every occurrence of a name appears once per occurrence in each list it
\* reaches, with the booleans it receives as the only entry of check.
C10_Independent ==
  (Evaluated /\ Len(calls) = 1) =>
    /\ outputs.keyExists = EachAlone(inputs.check, "keyExists")
    /\ outputs.notEmpty = EachAlone(inputs.check, "notEmpty")
    /\ outputs.matchesPattern = EachAlone(inputs.check, "matchesPattern")

ExistsFalse(e) == ~e.exists
NotEmptyFalse(e) == ~e.notEmpty
MatchesFalse(e) == ~e.matchesPattern

NotSetLabel == "Secrets not set:"
EmptyLabel == "Secrets with empty values:"
PatternLabel == "Secrets that failed to match pattern"

\* what a log line shows: its level, its label and the keys it lists
Shown(line) == <<line.level, line.text, line.keys>>

\* a is b with some entries left out, order kept
RECURSIVE IsSubsequence(_, _)
IsSubsequence(a, b) ==
  IF a = <<>> THEN TRUE
  ELSE IF b = <<>> THEN FALSE
  ELSE IF Head(a) = Head(b) THEN IsSubsequence(Tail(a), Tail(b))
  ELSE IsSubsequence(a, Tail(b))

Labels == [i \in 1..Len(log) |-> log[i].text]

\* C11: on a false result the log is at most three warning lines, in the order
\* not set / empty values / failed pattern; the first lists exactly the keys
\* with exists false, the second (only when allowEmpty is false) exactly those
\* with notEmpty false, the third (only with a pattern) exactly those with
\* matchesPattern false; an empty group has no line, each line is in check
\* order, and there is no informational line.
C11_WarningLines ==
  (Handled /\ ~outputs.result) =>
    LET notSet == Keys(SelectSeq(outputs.keyExists, ExistsFalse))
        empty == Keys(SelectSeq(outputs.notEmpty, NotEmptyFalse))
        failed == Keys(SelectSeq(outputs.matchesPattern, MatchesFalse))
    IN /\ Len(log) <= 3
       /\ \A i \in 1..Len(log) :
            /\ log[i].level = "warn"
            /\ log[i].keys # <<>>
            /\ IsSubsequence(log[i].keys, inputs.check)
       /\ IsSubsequence(Labels, <<NotSetLabel, EmptyLabel, PatternLabel>>)
       /\ (notSet # <<>>) <=> <<"warn", NotSetLabel, notSet>> \in {Shown(log[i]) : i \in 1..Len(log)}
       /\ (empty # <<>>) <=> <<"warn", EmptyLabel, empty>> \in {Shown(log[i]) : i \in 1..Len(log)}
       /\ (failed # <<>>) <=> <<"warn", PatternLabel, failed>> \in {Shown(log[i]) : i \in 1..Len(log)}
       /\ EmptyLabel \in Range(Labels) => ~inputs.allowEmpty
       /\ PatternLabel \in Range(Labels) => inputs.pattern.present
       /\ \A i \in 1..Len(log) :
            log[i].text = PatternLabel =>
              log[i].pattern = [body |-> inputs.pattern.body, flags |-> inputs.pattern.flags]

\* C11 witness: all three warning lines were emitted
C11_Witness == Handled /\ ~outputs.result /\ Len(log) = 3

MalformedInputErrors ==
  {InvalidJson, InvalidSchema, InvalidRegex, CheckEmpty, CheckSpaces}
    \cup {InvalidBoolean(raw[k], k) : k \in BooleanKeys}

PolicyErrors == {Err(SuccessMsg), Err(FailMsg)}

\* the number of warning groups of the current output that have a key
WarningGroups ==
  (IF SelectSeq(outputs.keyExists, ExistsFalse) # <<>> THEN 1 ELSE 0)
  + (IF SelectSeq(outputs.notEmpty, NotEmptyFalse) # <<>> THEN 1 ELSE 0)
  + (IF SelectSeq(outputs.matchesPattern, MatchesFalse) # <<>> THEN 1 ELSE 0)

\* what holds of every state of a run
OrderingState ==
  /\ pc \in {"start", "parsed", "evaluated"} => log = <<>> /\ error = NoError
  /\ ParseFailed =>
       /\ error \in MalformedInputErrors
       /\ log = <<>> /\ outputs = NoOutputs
  /\ error \in PolicyErrors =>
       /\ pc = "failed" /\ Evaluated
       /\ outputs = calls[Len(calls)]
       /\ Keys(outputs.keyExists) = inputs.check
  /\ error = Err(FailMsg) =>
       /\ ~outputs.result
       /\ Len(log) = WarningGroups
       /\ \A i \in 1..Len(log) : log[i].level = "warn"

\* what holds of every step of a run
OrderingStep ==
  /\ pc # "failed"
  /\ log' # log => pc = "evaluated"
  /\ error' # error =>
       \/ pc = "start" /\ error' \in MalformedInputErrors' /\ calls' = <<>> /\ log' = <<>>
       \/ pc = "evaluated" /\ error' \in PolicyErrors /\ calls' = calls /\ outputs' = outputs

\* C12: nothing is logged and no policy error is raised while parseInputs or
\* parseSecrets runs; a policy error is raised only after parseSecrets returned
\* the complete output and, for throwIfFail, after every warning line of the
\* run; a malformed-input error is raised before any evaluation or logging;
\* nothing happens after an error.
C12_Ordering == []OrderingState /\ [][OrderingStep]_vars

\* C12 witness: throwIfFail raised its error after two or more warning lines
C12_Witness ==
  /\ pc = "failed" /\ error = Err(FailMsg)
  /\ Len(log) >= 2

\* how many entries of a sequence equal k
Count(k, seq) == Cardinality({i \in 1..Len(seq) : seq[i] = k})

WarnLines == SelectSeq(log, LAMBDA line : line.level = "warn")

\* how many times the warning lines name k
RECURSIVE NamedIn(_, _)
NamedIn(k, lines) ==
  IF lines = <<>> THEN 0
  ELSE Count(k, Head(lines).keys) + NamedIn(k, Tail(lines))

\* how many occurrences of k passed all three stages
Passed(k) == Count(k, Keys(SelectSeq(outputs.matchesPattern, MatchesTrue)))

\* C13: given the output parseSecrets computed from the same inputs, a false
\* result emits at least one warning line and names every check entry that did
\* not pass all three stages in exactly one warning line per occurrence (and
\* names nothing else); a true result emits no warning line.
C13_NoSilentFailure ==
  Handled =>
    /\ outputs.result => WarnLines = <<>>
    /\ ~outputs.result =>
         /\ Len(WarnLines) >= 1
         /\ \A k \in Range(inputs.check) :
              NamedIn(k, WarnLines) = Count(k, inputs.check) - Passed(k)
         /\ \A i \in 1..Len(WarnLines) :
              Range(WarnLines[i].keys) \subseteq Range(inputs.check)

\* C13 witness: a name checked twice failed twice and is named twice
C13_Witness ==
  /\ Handled /\ ~outputs.result
  /\ \E k \in Range(inputs.check) :
       Count(k, inputs.check) = 2 /\ NamedIn(k, WarnLines) = 2

====
